---- MODULE Spec2Model ----
(***************************************************************************)
(* A model of the unimol_tools front ends:                                 *)
(*   - PretrainConfig.validate        (pretrain/pretrain_config.py)        *)
(*   - MolTrain.__init__ / MolTrain.fit / update_and_save_config (train.py)*)
(*   - UniMolRepr.__init__ / UniMolRepr.get_repr / MolDataset              *)
(*                                                        (predictor.py)   *)
(*   - preprocess_dataset on a structure file (tests/test_preprocess_sdf)  *)
(* A behaviour exercises one front end; the variables of the other front   *)
(* ends stay at their idle values.                                         *)
(***************************************************************************)
EXTENDS Integers, Sequences, FiniteSets, TLC

VARIABLES
    pcfg,       \* the PretrainConfig under validation
    vres,       \* outcome of PretrainConfig.validate()
    tpc,        \* MolTrain: position in __init__ / fit
    targs,      \* MolTrain: the keyword arguments __init__ was called with
    config,     \* MolTrain: self.config
    fs,         \* MolTrain: the output directory (exists, files written by this run)
    tdata,      \* MolTrain: self.data, the DataHub's result
    cv,         \* MolTrain: self.model.cv and the folds NNModel.run() trained
    cv_pred,    \* MolTrain: self.cv_pred (<<>> while the attribute is unset)
    terr,       \* MolTrain: the exception that ended __init__ or fit, if any
    tlog,       \* MolTrain: the calls fit has made so far, in order
    rpc,        \* UniMolRepr: position ("new", "constructed", "done", "failed")
    rargs,      \* UniMolRepr: the keyword arguments __init__ was called with
    rparams,    \* UniMolRepr: self.params
    rin,        \* UniMolRepr: the arguments of the get_repr call
    rhub,       \* UniMolRepr: <<data handed to DataHub>>, <<>> before that call
    rdataset,   \* UniMolRepr: the MolDataset handed to inference
    rout,       \* UniMolRepr: repr_output
    rerr,       \* UniMolRepr: the exception that ended __init__ or get_repr
    rlog,       \* UniMolRepr: the objects get_repr has created so far, in order
    dpc,        \* preprocess_dataset: position ("reading", "closed", "read")
    sdf,        \* preprocess_dataset: the conformers of the structure file
    dnext,      \* preprocess_dataset: index of the next conformer to parse
    store,      \* the record store: the records written, in insertion order
    dsrc,       \* for each stored record, the index of the conformer it came from
    ditem       \* LMDBDataset: <<dataset[0]>> once it has been read

pvars == <<pcfg, vres>>

tvars == <<tpc, targs, config, fs, tdata, cv, cv_pred, terr, tlog>>

rvars == <<rpc, rargs, rparams, rin, rhub, rdataset, rout, rerr, rlog>>

dvars == <<dpc, sdf, dnext, store, dsrc, ditem>>

vars == <<pcfg, vres, tpc, targs, config, fs, tdata, cv, cv_pred, terr, tlog,
          rpc, rargs, rparams, rin, rhub, rdataset, rout, rerr, rlog,
          dpc, sdf, dnext, store, dsrc, ditem>>

\* Python's None
PyNone == "<None>"

\* Python truthiness of an Optional[str]: None and "" are falsy
Truthy(x) == x # PyNone /\ x # ""

\* largest magnitude of the numeric options that are enumerated
MaxNum == 1

Nums == (0 - MaxNum)..MaxNum

\* ------------------------------------------------------------------------
\* PretrainConfig
\* ------------------------------------------------------------------------

\* values an Optional[str] dataset path can take
PathValues == {PyNone, "", "data"}

DataTypes == {"lmdb", "csv", "sdf"}

\* the fields of DatasetConfig / ModelConfig / TrainingConfig that validate() reads,
\* plus epochs; lr is counted in units of 1e-4
PretrainConfigs ==
    [data_type : DataTypes, train_lmdb : PathValues, train_path : PathValues,
     encoder_layers : Nums, batch_size : Nums, lr : Nums, epochs : Nums]

\* validate() as it would be if either dataset path satisfied the path check
validate_any_path(c) ==
    IF ~Truthy(c.train_lmdb) /\ ~Truthy(c.train_path)
    THEN IF c.data_type = "lmdb"
         THEN "train_lmdb must be specified when data_type is 'lmdb'."
         ELSE "train_path must be specified when data_type is not 'lmdb'."
    ELSE IF c.encoder_layers <= 0
    THEN "encoder_layers must be a positive integer."
    ELSE IF c.batch_size <= 0
    THEN "batch_size must be a positive integer."
    ELSE IF c.lr <= 0
    THEN "Learning rate must be a positive value."
    ELSE "ok"

\* PretrainConfig.validate(): "ok" when it returns, else the message of the ValueError
validate(c) ==
    IF c.data_type = "lmdb" /\ ~Truthy(c.train_lmdb)
    THEN "train_lmdb must be specified when data_type is 'lmdb'."
    ELSE IF c.data_type # "lmdb" /\ ~Truthy(c.train_path)
    THEN "train_path must be specified when data_type is not 'lmdb'."
    ELSE IF c.encoder_layers <= 0
    THEN "encoder_layers must be a positive integer."
    ELSE IF c.batch_size <= 0
    THEN "batch_size must be a positive integer."
    ELSE IF c.lr <= 0
    THEN "Learning rate must be a positive value."
    ELSE "ok"

PretrainIdle ==
    /\ pcfg = [data_type |-> "lmdb", train_lmdb |-> PyNone, train_path |-> PyNone,
               encoder_layers |-> 1, batch_size |-> 1, lr |-> 1, epochs |-> 1]
    /\ vres = "idle"

PretrainInit ==
    /\ pcfg \in PretrainConfigs
    /\ vres = "pending"

Validate ==
    /\ vres = "pending"
    /\ vres' = validate(pcfg)
    /\ UNCHANGED pcfg
    /\ UNCHANGED <<tvars, rvars, dvars>>

PretrainNext == Validate

\* ------------------------------------------------------------------------
\* MolTrain
\* ------------------------------------------------------------------------

\* number of records in the training data
NumRecords == 2

\* largest fold count that is enumerated
MaxFold == 2

Tasks == {"classification", "regression", "multiclass",
          "multilabel_classification", "multilabel_regression"}

\* save_path: None or a directory name
SavePaths == {PyNone, "./exp"}

\* keyword options that are not parameters of the constructors
UnknownKeys == {"epoch", "lr"}

\* Python's False and True
PyFalse == "<False>"

PyTrue == "<True>"

\* Python truthiness of a bool, None or str
PyTruthy(x) == x \notin {PyFalse, PyNone, ""}

\* x or y
PyOr(x, y) == IF PyTruthy(x) THEN x ELSE y

\* x in list
PyIn(x, list) == IF \E i \in DOMAIN list : list[i] = x THEN PyTrue ELSE PyFalse

\* the values of target_anomaly_check: the default False and the two documented ones
AnomalyChecks == {PyFalse, "filter", "none"}

\* the keyword arguments of MolTrain.__init__ that are enumerated; params is the
\* set of keys collected by **params
MolTrainArgs ==
    [task : Tasks, epochs : Nums, batch_size : Nums, kfold : 1..MaxFold,
     save_path : SavePaths, target_anomaly_check : AnomalyChecks,
     params : {{}, UnknownKeys}]

\* d with d[k] set to v (Python's d[k] = v)
SetKey(d, k, v) == [x \in (DOMAIN d) \cup {k} |-> IF x = k THEN v ELSE d[x]]

\* the config MolTrain.__init__ builds from its arguments; **params is not read
MolTrainConfig(a) ==
    [task |-> a.task, epochs |-> a.epochs, batch_size |-> a.batch_size,
     kfold |-> a.kfold, split |-> "random",
     anomaly_clean |-> PyOr(a.target_anomaly_check,
                            PyIn(a.target_anomaly_check, <<"filter">>))]

\* ','.join(names), the names being sequences of characters
RECURSIVE Join(_)
Join(names) ==
    IF names = <<>> THEN <<>>
    ELSE IF Len(names) = 1 THEN names[1]
    ELSE names[1] \o <<",">> \o Join(Tail(names))

\* the config entries update_and_save_config sets from self.data
UpdateConfig(cfg, data) ==
    LET c1 == SetKey(cfg, "num_classes", data.num_classes)
        c2 == SetKey(c1, "target_cols", Join(data.target_cols))
        c3 == IF cfg.task = "multiclass"
              THEN SetKey(c2, "multiclass_cnt", data.multiclass_cnt)
              ELSE c2
    IN  SetKey(c3, "split_method", <<cfg.kfold, "fold_", cfg.split>>)

\* update_and_save_config as it would be if it never wrote the snapshot
SaveConfig_skipped(save_path, f, cfg) == f

\* the output directory after update_and_save_config: created when missing, and
\* config.yaml written into it, unless save_path is None
SaveConfig(save_path, f, cfg) ==
    IF save_path # PyNone
    THEN [f EXCEPT !.dir = TRUE, !.config_yaml = <<cfg>>]
    ELSE f

\* the calls update_and_save_config makes on the file system
SaveConfigCalls(save_path, f) ==
    IF save_path # PyNone
    THEN (IF f.dir THEN <<>> ELSE <<"makedirs">>) \o <<"write_yaml">>
    ELSE <<>>

\* target scalers a DataHub can fit: None or one of two affine scalers
Scalers == {PyNone, "standard", "minmax"}

\* scaler.inverse_transform on one value
InverseValue(scalar, y) ==
    CASE scalar = "standard" -> 2 * y + 1
      [] scalar = "minmax" -> y + 3

\* scaler.inverse_transform on an array
inverse_transform(scalar, ys) == [i \in DOMAIN ys |-> InverseValue(scalar, ys[i])]

\* y_pred as fit uses it after line 197
FitPred(scalar, y_pred) ==
    IF scalar # PyNone THEN inverse_transform(scalar, y_pred) ELSE y_pred

\* y_true as it would be if only the predictions were inverse-transformed
FitTrue_raw(scalar, y_true) == y_true

\* y_true as fit uses it after line 197
FitTrue(scalar, y_true) ==
    IF scalar # PyNone THEN inverse_transform(scalar, y_true) ELSE y_true

\* the threshold tasks as they would be if multiclass were one of them
ThresholdTasks_all_classification ==
    {"classification", "multiclass", "multilabel_classification"}

\* the tasks for which fit computes and dumps a threshold
ThresholdTasks == {"classification", "multilabel_classification"}

\* metrics.calculate_classification_threshold(y_true, y_pred): the value is kept
\* as the pair it was computed from
calculate_classification_threshold(y_true, y_pred) ==
    [y_true |-> y_true, y_pred |-> y_pred]

\* the (normalised) labels and predictions of the records: 0 or 1 each
Labels == [1..NumRecords -> {0, 1}]

\* what DataHub(data=..., is_train=True) returns for a source it can open
DataHubData(task, target, scalar) ==
    [target |-> target, target_scaler |-> scalar,
     num_classes |-> IF task = "multiclass" THEN 3 ELSE 2,
     multiclass_cnt |-> 3,
     target_cols |-> IF task \in {"multilabel_classification", "multilabel_regression"}
                     THEN <<<<"T","0">>, <<"T","1">>>> ELSE <<<<"T","0">>>>]

NoData == [target |-> <<>>, target_scaler |-> PyNone, num_classes |-> 0,
           multiclass_cnt |-> 0, target_cols |-> <<>>]

NoArgs == [task |-> "classification", epochs |-> 1, batch_size |-> 1, kfold |-> 1,
           save_path |-> PyNone, target_anomaly_check |-> PyFalse, params |-> {}]

TrainIdle ==
    /\ tpc = "idle"
    /\ targs = NoArgs
    /\ config = MolTrainConfig(NoArgs)
    /\ fs = [dir |-> FALSE, config_yaml |-> <<>>, threshold_dat |-> <<>>]
    /\ tdata = NoData
    /\ cv = [pred |-> <<>>, folds |-> 0]
    /\ cv_pred = <<>>
    /\ terr = PyNone
    /\ tlog = <<>>

\* before MolTrain(...) is called; the output directory may already exist
TrainInit ==
    /\ tpc = "new"
    /\ targs = NoArgs
    /\ config = MolTrainConfig(NoArgs)
    /\ fs \in [dir : BOOLEAN, config_yaml : {<<>>}, threshold_dat : {<<>>}]
    /\ tdata = NoData
    /\ cv = [pred |-> <<>>, folds |-> 0]
    /\ cv_pred = <<>>
    /\ terr = PyNone
    /\ tlog = <<>>

\* MolTrain(**a): lines 125-163
MolTrainInit ==
    /\ tpc = "new"
    /\ \E a \in MolTrainArgs :
          /\ targs' = a
          /\ config' = MolTrainConfig(a)
    /\ tpc' = "constructed"
    /\ UNCHANGED <<fs, tdata, cv, cv_pred, terr, tlog>>
    /\ UNCHANGED <<pvars, rvars, dvars>>

\* fit, lines 183-186: DataHub reads the data; it raises when the source cannot
\* be opened
FitDataHub ==
    /\ tpc = "constructed"
    /\ tlog' = Append(tlog, "DataHub")
    /\ \/ /\ tpc' = "failed"
          /\ terr' = "DataSourceError"
          /\ UNCHANGED tdata
       \/ \E target \in Labels, scalar \in Scalers :
             /\ tdata' = DataHubData(config.task, target, scalar)
             /\ tpc' = "data"
             /\ UNCHANGED terr
    /\ UNCHANGED <<targs, config, fs, cv, cv_pred>>
    /\ UNCHANGED <<pvars, rvars, dvars>>

\* fit, line 187: update_and_save_config, lines 210-231
FitUpdateAndSaveConfig ==
    /\ tpc = "data"
    /\ config' = UpdateConfig(config, tdata)
    /\ fs' = SaveConfig(targs.save_path, fs, config')
    /\ tlog' = tlog \o SaveConfigCalls(targs.save_path, fs)
    /\ tpc' = "saved"
    /\ UNCHANGED <<targs, tdata, cv, cv_pred, terr>>
    /\ UNCHANGED <<pvars, rvars, dvars>>

\* fit, lines 188-189: the Trainer and the NNModel are constructed
FitBuildModel ==
    /\ tpc = "saved"
    /\ tlog' = tlog \o <<"Trainer", "NNModel">>
    /\ tpc' = "built"
    /\ UNCHANGED <<targs, config, fs, tdata, cv, cv_pred, terr>>
    /\ UNCHANGED <<pvars, rvars, dvars>>

\* NNModel.run(): a configuration with a non-positive epoch or batch count is
\* refused before the first fold; otherwise the folds are trained in order and
\* an I/O error may abort the run after any number of them
RunOutcomes(cfg) ==
    IF cfg.epochs <= 0 \/ cfg.batch_size <= 0
    THEN {[err |-> "ConfigError", folds |-> 0, pred |-> <<>>]}
    ELSE {[err |-> PyNone, folds |-> cfg.kfold, pred |-> p] : p \in Labels}
         \cup {[err |-> "IOError", folds |-> k, pred |-> <<>>] : k \in 0..(cfg.kfold - 1)}

\* fit, line 190
FitRun ==
    /\ tpc = "built"
    /\ tlog' = Append(tlog, "run")
    /\ \E o \in RunOutcomes(config) :
          /\ cv' = [pred |-> o.pred, folds |-> o.folds]
          /\ terr' = o.err
          /\ tpc' = IF o.err = PyNone THEN "ran" ELSE "failed"
    /\ UNCHANGED <<targs, config, fs, tdata, cv_pred>>
    /\ UNCHANGED <<pvars, rvars, dvars>>

\* fit, lines 191-204
FitFinish ==
    /\ tpc = "ran"
    /\ LET scalar == tdata.target_scaler
           y_pred == FitPred(scalar, cv.pred)
           y_true == FitTrue(scalar, tdata.target)
           inv    == IF scalar # PyNone
                     THEN <<"inverse_transform", "inverse_transform">> ELSE <<>>
       IN  IF config.task \in ThresholdTasks
           THEN IF targs.save_path = PyNone
                THEN \* os.path.join(None, 'threshold.dat') raises TypeError
                     /\ tlog' = tlog \o inv \o <<"calculate_classification_threshold">>
                     /\ tpc' = "failed"
                     /\ terr' = "TypeError"
                     /\ UNCHANGED <<fs, cv_pred>>
                ELSE /\ tlog' = tlog \o inv
                                 \o <<"calculate_classification_threshold", "dump", "cv_pred">>
                     /\ fs' = [fs EXCEPT !.threshold_dat =
                                 <<calculate_classification_threshold(y_true, y_pred)>>]
                     /\ cv_pred' = y_pred
                     /\ tpc' = "done"
                     /\ UNCHANGED terr
           ELSE /\ tlog' = tlog \o inv \o <<"cv_pred">>
                /\ cv_pred' = y_pred
                /\ tpc' = "done"
                /\ UNCHANGED <<fs, terr>>
    /\ UNCHANGED <<targs, config, tdata, cv>>
    /\ UNCHANGED <<pvars, rvars, dvars>>

TrainNext ==
    \/ MolTrainInit
    \/ FitDataHub
    \/ FitUpdateAndSaveConfig
    \/ FitBuildModel
    \/ FitRun
    \/ FitFinish

\* ------------------------------------------------------------------------
\* UniMolRepr and MolDataset
\* ------------------------------------------------------------------------

\* longest list or array of SMILES that is enumerated
MaxItems == 2

\* most molecules in an atoms+coordinates mapping
MaxMols == 2

\* a Python value: its type, and the part of the record its type uses (a string's
\* or an int's characters in s, a list's or an array's elements in items, a
\* mapping's keys in keys and its molecules in mols)
PyValue(t, s, items, keys, mols) ==
    [t |-> t, s |-> s, items |-> items, keys |-> keys, mols |-> mols]

PyStr(chars) == PyValue("str", chars, <<>>, {}, <<>>)

PyInt(digits) == PyValue("int", digits, <<>>, {}, <<>>)

PyNoneValue == PyValue("NoneType", <<>>, <<>>, {}, <<>>)

PyList(items) == PyValue("list", <<>>, items, {}, <<>>)

NdArray(items) == PyValue("ndarray", <<>>, items, {}, <<>>)

PyDict(keys, mols) == PyValue("dict", <<>>, <<>>, keys, mols)

\* isinstance(x, str)
IsStr(x) == x.t = "str"

\* str.endswith
endswith(str, suffix) ==
    /\ Len(str) >= Len(suffix)
    /\ SubSeq(str, Len(str) - Len(suffix) + 1, Len(str)) = suffix

SdfSuffix == <<".", "s", "d", "f">>

CsvSuffix == <<".", "c", "s", "v">>

\* np.array(items): with a string among the items, every item becomes its string
np_array(items) ==
    IF \E i \in DOMAIN items : IsStr(items[i])
    THEN NdArray([i \in DOMAIN items |-> PyStr(items[i].s)])
    ELSE NdArray(items)

\* a molecule of an atoms+coordinates mapping: atom i sits at (i-1, 0, 0)
Mol(atoms) ==
    [atoms |-> atoms, coordinates |-> [i \in DOMAIN atoms |-> <<i - 1, 0, 0>>]]

MolCatalogue ==
    {Mol(<<"C", "C", "O">>), Mol(<<"O", "H", "H">>), Mol(<<"H", "H">>), Mol(<<"C">>)}

MolLists == UNION {[1..n -> MolCatalogue] : n \in 0..MaxMols}

SmilesCCO == PyStr(<<"C", "C", "O">>)

SmilesC == PyStr(<<"C">>)

\* the files of the model's file system
PathSdf == PyStr(<<"a">> \o SdfSuffix)

PathCsv == PyStr(<<"a">> \o CsvSuffix)

PathCsvNoSmiles == PyStr(<<"b">> \o CsvSuffix)

PathCsvMissing == PyStr(<<"c">> \o CsvSuffix)

\* pd.read_csv(path): the table, or the error raised
read_csv(path) ==
    CASE path = PathCsv ->
            [err |-> PyNone, columns |-> {"SMILES", "TARGET"},
             SMILES |-> <<SmilesCCO, SmilesC>>]
      [] path = PathCsvNoSmiles ->
            [err |-> PyNone, columns |-> {"smiles"}, SMILES |-> <<>>]
      [] OTHER ->
            [err |-> "FileNotFoundError", columns |-> {}, SMILES |-> <<>>]

Elements == {SmilesCCO, SmilesC, PyInt(<<"1">>)}

ItemLists == UNION {[1..n -> Elements] : n \in 0..MaxItems}

\* the values get_repr is called with
ReprInputs ==
    {PathSdf, PathCsv, PathCsvNoSmiles, PathCsvMissing, SmilesCCO, PyStr(SdfSuffix),
     PyStr(<<"s", "d", "f">>), PyNoneValue, PyInt(<<"1">>)}
    \cup {PyList(l) : l \in ItemLists}
    \cup {NdArray(l) : l \in ItemLists}
    \cup {PyDict(k, m) : k \in SUBSET {"atoms", "coordinates"}, m \in MolLists}

Raise(e) == [err |-> e, data |-> PyNoneValue]

Return(d) == [err |-> PyNone, data |-> d]

\* get_repr as it would be if a list were checked at its first element
PrepareInput_first(data) ==
    IF data.t = "str"
    THEN IF endswith(data.s, SdfSuffix) THEN Return(data)
         ELSE IF endswith(data.s, CsvSuffix)
         THEN LET table == read_csv(data)
              IN  IF table.err # PyNone THEN Raise(table.err)
                  ELSE IF "SMILES" \notin table.columns THEN Raise("AssertionError")
                  ELSE Return(NdArray(table.SMILES))
         ELSE Return(np_array(<<data>>))
    ELSE IF data.t = "dict"
    THEN IF "atoms" \in data.keys /\ "coordinates" \in data.keys
         THEN Return(data) ELSE Raise("AssertionError")
    ELSE IF data.t = "list"
    THEN IF data.items = <<>> THEN Raise("IndexError")
         ELSE IF ~IsStr(data.items[1]) THEN Raise("AssertionError")
         ELSE Return(np_array(data.items))
    ELSE IF data.t = "ndarray"
    THEN IF data.items = <<>> THEN Raise("IndexError")
         ELSE IF ~IsStr(data.items[1]) THEN Raise("AssertionError")
         ELSE Return(data)
    ELSE Raise("ValueError")

\* get_repr, lines 113-137: the value handed to DataHub, or the error raised
PrepareInput(data) ==
    IF data.t = "str"
    THEN IF endswith(data.s, SdfSuffix) THEN Return(data)
         ELSE IF endswith(data.s, CsvSuffix)
         THEN LET table == read_csv(data)
              IN  IF table.err # PyNone THEN Raise(table.err)
                  ELSE IF "SMILES" \notin table.columns THEN Raise("AssertionError")
                  ELSE Return(NdArray(table.SMILES))
         ELSE Return(np_array(<<data>>))
    ELSE IF data.t = "dict"
    THEN IF "atoms" \in data.keys /\ "coordinates" \in data.keys
         THEN Return(data) ELSE Raise("AssertionError")
    ELSE IF data.t = "list"
    THEN IF data.items = <<>> THEN Raise("IndexError")
         ELSE IF ~IsStr(data.items[Len(data.items)]) THEN Raise("AssertionError")
         ELSE Return(np_array(data.items))
    ELSE IF data.t = "ndarray"
    THEN IF data.items = <<>> THEN Raise("IndexError")
         ELSE IF ~IsStr(data.items[1]) THEN Raise("AssertionError")
         ELSE Return(data)
    ELSE Raise("ValueError")

\* hydrogen removal: an atom and its coordinate row go together
RemoveHs(mol) ==
    LET keep == SelectSeq([i \in DOMAIN mol.atoms |-> i],
                          LAMBDA i : mol.atoms[i] # "H")
    IN  [atoms |-> [k \in DOMAIN keep |-> mol.atoms[keep[k]]],
         coordinates |-> [k \in DOMAIN keep |-> mol.coordinates[keep[k]]]]

\* the molecules a list of SMILES strings stands for; an unparseable string
\* stands for none
SmilesMols(items) ==
    LET known == SelectSeq(items, LAMBDA x : x \in {SmilesCCO, SmilesC})
    IN  [i \in DOMAIN known |-> Mol(known[i].s)]

\* DataHub(data=..., task='repr', is_train=False): data['unimol_input'], one entry
\* per molecule that still has an atom after the hydrogen policy; a structure
\* file that cannot be opened is an error
DataHubRepr(data, remove_hs) ==
    LET mols == CASE data.t = "dict" -> data.mols
                  [] data.t = "ndarray" -> SmilesMols(data.items)
                  [] data = PathSdf -> <<Mol(<<"C", "C", "O">>), Mol(<<"O", "H", "H">>)>>
                  [] OTHER -> <<>>
        stripped == [i \in DOMAIN mols |-> IF remove_hs THEN RemoveHs(mols[i]) ELSE mols[i]]
    IN  IF data.t = "str" /\ data # PathSdf
        THEN [err |-> "FileNotFoundError", unimol_input |-> <<>>]
        ELSE [err |-> PyNone,
              unimol_input |-> SelectSeq(stripped, LAMBDA m : m.atoms # <<>>)]

\* MolDataset.__init__ with label=None
MolDataset(data) ==
    [data |-> data, label |-> [i \in DOMAIN data |-> <<0>>]]

\* MolDataset.__len__ as it would be if it counted one item too few
MolDataset_len_short(ds) == Len(ds.data) - 1

\* MolDataset.__len__
MolDataset_len(ds) == Len(ds.data)

\* MolDataset.__getitem__, idx counted from 0
MolDataset_getitem(ds, idx) == <<ds.data[idx + 1], ds.label[idx + 1]>>

\* Trainer.inference(..., return_repr=True): one pooled vector per dataset item
\* and, when asked for, one atomic vector per atom of each item; a vector is
\* kept as what it was computed from
Inference(ds, return_atomic_reprs, return_tensor) ==
    LET n == MolDataset_len(ds)
        item(i) == MolDataset_getitem(ds, i - 1)
    IN  [cls_repr |-> [i \in 1..n |-> <<"cls", item(i)[1].atoms, item(i)[2]>>],
         atomic_reprs |->
            IF return_atomic_reprs
            THEN [i \in 1..n |->
                    [k \in DOMAIN item(i)[1].atoms |-> <<"atom", item(i)[1].atoms[k], k>>]]
            ELSE <<>>,
         as_dict |-> return_atomic_reprs,
         as_tensor |-> return_tensor /\ ~return_atomic_reprs]

ModelNames == {"unimolv1", "unimolv2", "unimolv3"}

\* the keyword arguments of UniMolRepr.__init__ that are enumerated; kwargs is
\* the set of keys collected by **kwargs
UniMolReprArgs ==
    [model_name : ModelNames, remove_hs : BOOLEAN, kwargs : {{}, UnknownKeys}]

\* self.params, lines 77-87; **kwargs is not read
ReprParams(a) ==
    [data_type |-> "molecule", batch_size |-> 32, remove_hs |-> a.remove_hs,
     model_name |-> a.model_name, model_size |-> "84m", use_cuda |-> TRUE,
     use_ddp |-> FALSE, use_gpu |-> "all", save_path |-> PyNone]

NoReprArgs == [model_name |-> "unimolv1", remove_hs |-> FALSE, kwargs |-> {}]

NoReprIn == [data |-> PyNoneValue, return_atomic_reprs |-> FALSE, return_tensor |-> FALSE]

NoDataset == [data |-> <<>>, label |-> <<>>]

NoOutput == [cls_repr |-> <<>>, atomic_reprs |-> <<>>, as_dict |-> FALSE, as_tensor |-> FALSE]

ReprFresh ==
    /\ rargs = NoReprArgs
    /\ rparams = ReprParams(NoReprArgs)
    /\ rin = NoReprIn
    /\ rhub = <<>>
    /\ rdataset = NoDataset
    /\ rout = NoOutput
    /\ rerr = PyNone
    /\ rlog = <<>>

ReprIdle == rpc = "idle" /\ ReprFresh

ReprInit == rpc = "new" /\ ReprFresh

\* UniMolRepr(**a): lines 63-87
UniMolReprInit ==
    /\ rpc = "new"
    /\ \E a \in UniMolReprArgs :
          /\ rargs' = a
          /\ IF a.model_name \in {"unimolv1", "unimolv2"}
             THEN /\ rparams' = ReprParams(a)
                  /\ rpc' = "constructed"
                  /\ UNCHANGED rerr
             ELSE /\ rpc' = "failed"
                  /\ rerr' = "ValueError"
                  /\ UNCHANGED rparams
    /\ UNCHANGED <<rin, rhub, rdataset, rout, rlog>>
    /\ UNCHANGED <<pvars, tvars, dvars>>

\* get_repr(data, return_atomic_reprs, return_tensor): lines 113-155
GetRepr ==
    /\ rpc = "constructed"
    /\ \E data \in ReprInputs, atomic \in BOOLEAN, tensor \in BOOLEAN :
          LET prepared == PrepareInput(data)
              hub == DataHubRepr(prepared.data, rparams.remove_hs)
              dataset == MolDataset(hub.unimol_input)
          IN  /\ rin' = [data |-> data, return_atomic_reprs |-> atomic,
                         return_tensor |-> tensor]
              /\ IF prepared.err # PyNone
                 THEN /\ rerr' = prepared.err
                      /\ rpc' = "failed"
                      /\ UNCHANGED <<rhub, rdataset, rout, rlog>>
                 ELSE IF hub.err # PyNone
                 THEN /\ rhub' = <<prepared.data>>
                      /\ rlog' = rlog \o <<"DataHub">>
                      /\ rerr' = hub.err
                      /\ rpc' = "failed"
                      /\ UNCHANGED <<rdataset, rout>>
                 ELSE /\ rhub' = <<prepared.data>>
                      /\ rdataset' = dataset
                      /\ rlog' = rlog \o <<"DataHub", "MolDataset", "Trainer", "inference">>
                      /\ rout' = Inference(dataset, atomic, tensor)
                      /\ rpc' = "done"
                      /\ UNCHANGED rerr
    /\ UNCHANGED <<rargs, rparams>>
    /\ UNCHANGED <<pvars, tvars, dvars>>

ReprNext ==
    \/ UniMolReprInit
    \/ GetRepr

\* ------------------------------------------------------------------------
\* preprocess_dataset(..., data_type='sdf') and the record store
\* ------------------------------------------------------------------------

\* most conformers in a structure file
MaxConformers == 2

\* the molecule the test embeds: CCO with its hydrogens added
EthanolWithHs == Mol(<<"C", "C", "O", "H", "H", "H", "H", "H", "H">>)

\* a conformer block whose coordinate rows are one fewer than its atoms
Short(mol) ==
    [atoms |-> mol.atoms,
     coordinates |-> SubSeq(mol.coordinates, 1, Len(mol.coordinates) - 1)]

\* a conformer block with one coordinate row more than atoms
Long(mol) ==
    [atoms |-> mol.atoms,
     coordinates |-> Append(mol.coordinates, <<Len(mol.atoms), 0, 0>>)]

\* the conformer blocks a structure file can hold
Conformers ==
    {EthanolWithHs, Mol(<<"C", "C", "O">>), Mol(<<"O", "C", "C">>),
     Short(Mol(<<"C", "C", "O">>)), Long(Mol(<<"O", "C">>)), Mol(<<>>)}

SdfFiles == UNION {[1..n -> Conformers] : n \in 1..MaxConformers}

Reverse(seq) == [i \in DOMAIN seq |-> seq[Len(seq) + 1 - i]]

\* order of the element symbols in a SMILES comparison
Rank(a) == CASE a = "C" -> 1 [] a = "H" -> 2 [] a = "O" -> 3

\* lexicographic order on atom sequences of the same length
RECURSIVE LexLeq(_, _)
LexLeq(x, y) ==
    IF x = <<>> THEN TRUE
    ELSE IF Rank(x[1]) # Rank(y[1]) THEN Rank(x[1]) < Rank(y[1])
    ELSE LexLeq(Tail(x), Tail(y))

\* Chem.MolToSmiles(mol): a chain read from either end is the same molecule,
\* and its canonical SMILES is the smaller of the two readings
MolToSmiles(atoms) ==
    IF LexLeq(atoms, Reverse(atoms)) THEN atoms ELSE Reverse(atoms)

\* the record preprocess_dataset stores for a conformer
Record(c) ==
    [smi |-> MolToSmiles(c.atoms), atoms |-> c.atoms, coordinates |-> c.coordinates]

\* acceptance as it would be if the two counts were not compared
Accepted_unchecked(c) == c.atoms # <<>>

\* a conformer is stored only if it has atoms and one coordinate row per atom
Accepted(c) == c.atoms # <<>> /\ Len(c.atoms) = Len(c.coordinates)

PreprocessIdle ==
    /\ dpc = "idle"
    /\ sdf = <<>>
    /\ dnext = 1
    /\ store = <<>>
    /\ dsrc = <<>>
    /\ ditem = <<>>

\* the structure file has been written and preprocess_dataset starts on it
PreprocessInit ==
    /\ dpc = "reading"
    /\ sdf \in SdfFiles
    /\ dnext = 1
    /\ store = <<>>
    /\ dsrc = <<>>
    /\ ditem = <<>>

\* preprocess_dataset(sdf, lmdb, data_type='sdf'): one conformer is parsed and
\* either stored or rejected
PreprocessConformer ==
    /\ dpc = "reading"
    /\ dnext <= Len(sdf)
    /\ IF Accepted(sdf[dnext])
       THEN /\ store' = Append(store, Record(sdf[dnext]))
            /\ dsrc' = Append(dsrc, dnext)
       ELSE UNCHANGED <<store, dsrc>>
    /\ dnext' = dnext + 1
    /\ UNCHANGED <<dpc, sdf, ditem>>
    /\ UNCHANGED <<pvars, tvars, rvars>>

\* preprocess_dataset returns: the store is closed
PreprocessClose ==
    /\ dpc = "reading"
    /\ dnext > Len(sdf)
    /\ dpc' = "closed"
    /\ UNCHANGED <<sdf, dnext, store, dsrc, ditem>>
    /\ UNCHANGED <<pvars, tvars, rvars>>

\* test_preprocess_sdf, lines 19-20: LMDBDataset(lmdb)[0]
ReadFirstItem ==
    /\ dpc = "closed"
    /\ store # <<>>
    /\ ditem' = <<store[1]>>
    /\ dpc' = "read"
    /\ UNCHANGED <<sdf, dnext, store, dsrc>>
    /\ UNCHANGED <<pvars, tvars, rvars>>

PreprocessNext ==
    \/ PreprocessConformer
    \/ PreprocessClose
    \/ ReadFirstItem

\* ------------------------------------------------------------------------
\* Claims about PretrainConfig.validate
\* ------------------------------------------------------------------------

Validated == vres \notin {"idle", "pending"}

LmdbMessage == "train_lmdb must be specified when data_type is 'lmdb'."

PathMessage == "train_path must be specified when data_type is not 'lmdb'."

\* C1: validate() returns normally only when the epoch count, the batch size and
\* the learning rate are all positive; a configuration with any of them <= 0
\* raises.
C1_NonPositiveRejected ==
    (Validated /\ vres = "ok") =>
        (pcfg.epochs > 0 /\ pcfg.batch_size > 0 /\ pcfg.lr > 0)

\* C2: validate() raises when the dataset path of the selected data kind is
\* missing (train_lmdb for 'lmdb', train_path for any other kind), it raises a
\* path error only then, and the path of the other kind has no influence on
\* the outcome.
C2_RequiredPath ==
    Validated =>
        /\ (pcfg.data_type = "lmdb") =>
              /\ (vres = LmdbMessage) <=> (pcfg.train_lmdb \in {PyNone, ""})
              /\ vres # PathMessage
              /\ \A other \in PathValues :
                    validate([pcfg EXCEPT !.train_path = other]) = vres
        /\ (pcfg.data_type # "lmdb") =>
              /\ (vres = PathMessage) <=> (pcfg.train_path \in {PyNone, ""})
              /\ vres # LmdbMessage
              /\ \A other \in PathValues :
                    validate([pcfg EXCEPT !.train_lmdb = other]) = vres

\* C2 witness: the lmdb path is missing, the other kind's path is set, and
\* validate() has raised for the lmdb path.
C2_Witness ==
    /\ pcfg.data_type = "lmdb"
    /\ pcfg.train_lmdb = PyNone
    /\ pcfg.train_path = "data"
    /\ vres = LmdbMessage

\* ------------------------------------------------------------------------
\* Claims about MolTrain
\* ------------------------------------------------------------------------

\* positions of a call in fit's log
Pos(e) == {i \in DOMAIN tlog : tlog[i] = e}

Called(e) == Pos(e) # {}

\* every call a precedes every call b
Precedes(a, b) == \A i \in Pos(a), j \in Pos(b) : i < j

\* C3: with a non-positive epochs or batch_size, or a data source that cannot
\* be opened, the error is raised before the output directory is created,
\* before config.yaml is written and before any fold is trained.
C3_InvalidConfigFatalBeforeRun ==
    (tpc \notin {"idle", "new"}
       /\ (config.epochs <= 0 \/ config.batch_size <= 0 \/ terr = "DataSourceError"))
    => /\ ~Called("makedirs")
       /\ ~Called("write_yaml")
       /\ fs.config_yaml = <<>>
       /\ ~Called("run")
       /\ cv.folds = 0

\* C4 as stated: config.yaml is written only after NNModel.run() has completed,
\* and a fit that failed during training has written no config.yaml.
C4_ConfigWrittenAfterRun ==
    /\ Called("write_yaml") => (Called("run") /\ Precedes("run", "write_yaml"))
    /\ (tpc = "failed" /\ Called("run")) => fs.config_yaml = <<>>

\* C4 amended: config.yaml is written (when save_path is not None) by
\* update_and_save_config, after the DataHub call and before the Trainer and the
\* NNModel are created, so before NNModel.run() starts and never after it; it
\* is written once and holds the updated config; a fit that fails during
\* training leaves it written.
C4_ConfigWrittenBeforeRun ==
    /\ Cardinality(Pos("write_yaml")) <= 1
    /\ Precedes("DataHub", "write_yaml")
    /\ Precedes("write_yaml", "Trainer")
    /\ Precedes("write_yaml", "run")
    /\ Called("write_yaml") <=> (fs.config_yaml # <<>>)
    /\ (Called("Trainer") /\ targs.save_path # PyNone) =>
          /\ fs.dir
          /\ fs.config_yaml = <<config>>
          /\ "split_method" \in DOMAIN config
    /\ (Called("Trainer") /\ targs.save_path = PyNone) => fs.config_yaml = <<>>

\* C4 witness: training failed after config.yaml had been written.
C4_Witness ==
    /\ tpc = "failed"
    /\ terr = "IOError"
    /\ cv.folds >= 1
    /\ fs.config_yaml # <<>>

\* C5 as stated: a fit that returns has written threshold.dat if and only if
\* the task is one of the classification kinds (classification, multiclass,
\* multilabel_classification).
C5_ThresholdIffClassificationKind ==
    (tpc = "done") =>
        ((fs.threshold_dat # <<>>) <=>
            (config.task \in {"classification", "multiclass",
                              "multilabel_classification"}))

\* C5 amended: a fit that returns has written threshold.dat if and only if the
\* task is 'classification' or 'multilabel_classification'; for multiclass,
\* regression and multilabel_regression none is written; the threshold is
\* computed only after NNModel.run() has trained all folds.
C5_ThresholdIffBinaryOrMultilabel ==
    /\ (tpc = "done") =>
          ((fs.threshold_dat # <<>>) <=>
              (config.task \in {"classification", "multilabel_classification"}))
    /\ (fs.threshold_dat # <<>>) =>
          /\ config.task \in {"classification", "multilabel_classification"}
          /\ Called("dump")
    /\ Called("calculate_classification_threshold") =>
          /\ Called("run")
          /\ Precedes("run", "calculate_classification_threshold")
          /\ cv.folds = config.kfold
          /\ terr \in {PyNone, "TypeError"}
    /\ Precedes("calculate_classification_threshold", "dump")

\* C5 witness: a classification fit has returned and has written its threshold.
C5_Witness ==
    /\ tpc = "done"
    /\ config.task = "classification"
    /\ fs.threshold_dat # <<>>
    /\ cv.folds = MaxFold

\* C6: with a target scaler, the predictions and the true labels are both
\* inverse-transformed with it before the threshold is computed and before
\* cv_pred is set; without one, cv_pred is cv['pred'] and the labels are used
\* as they are.
C6_InverseTransformBeforeThreshold ==
    /\ (tpc = "done") =>
          LET s == tdata.target_scaler
              inv(ys) == [i \in DOMAIN ys |->
                            CASE s = "standard" -> 2 * ys[i] + 1
                              [] s = "minmax" -> ys[i] + 3
                              [] OTHER -> ys[i]]
          IN  /\ cv_pred = inv(cv.pred)
              /\ (s = PyNone) => (cv_pred = cv.pred /\ ~Called("inverse_transform"))
              /\ (s # PyNone) => Cardinality(Pos("inverse_transform")) = 2
              /\ (fs.threshold_dat # <<>>) =>
                    fs.threshold_dat = <<[y_true |-> inv(tdata.target),
                                          y_pred |-> inv(cv.pred)]>>
    /\ Precedes("inverse_transform", "calculate_classification_threshold")
    /\ Precedes("inverse_transform", "cv_pred")
    /\ Precedes("run", "inverse_transform")

\* C6 witness: a classification fit with a scaler has returned with its
\* threshold written.
C6_Witness ==
    /\ tpc = "done"
    /\ tdata.target_scaler = "standard"
    /\ fs.threshold_dat # <<>>
    /\ cv_pred # cv.pred

\* C11: after construction config.anomaly_clean is truthy when
\* target_anomaly_check is 'filter' and falsy when it is 'none' or False.
C11_AnomalyCleanFollowsOption ==
    (tpc \notin {"idle", "new"}) =>
        /\ (targs.target_anomaly_check = "filter") =>
              config.anomaly_clean \notin {PyFalse, PyNone, ""}
        /\ (targs.target_anomaly_check \in {"none", PyFalse}) =>
              config.anomaly_clean \in {PyFalse, PyNone, ""}

\* ------------------------------------------------------------------------
\* Claims about UniMolRepr
\* ------------------------------------------------------------------------

\* get_repr has been called and has returned or raised
ReprCalled == rpc \in {"done", "failed"} /\ rargs.model_name # "unimolv3"

BothKeys(d) == {"atoms", "coordinates"} \subseteq d.keys

AllStr(items) == \A i \in DOMAIN items : items[i].t = "str"

MappingDone == rpc = "done" /\ rin.data.t = "dict"

C10_UnknownKeysRejected ==
    /\ (tpc = "constructed") => (targs.params = {})
    /\ (rpc = "constructed") => (rargs.kwargs = {})

\* ------------------------------------------------------------------------
\* Claims about preprocessing a structure file
\* ------------------------------------------------------------------------

\* C9: every stored record has as many atoms as coordinate rows, at least one
\* of each, and the canonical SMILES of the conformer it was parsed from as its
\* identity; a conformer whose counts disagree is never stored, neither as it
\* is nor cut to the shorter length.
C9_StoredRecordsConsistent ==
    /\ Len(dsrc) = Len(store)
    /\ \A k \in DOMAIN store :
          LET r == store[k]
              c == sdf[dsrc[k]]
          IN  /\ Len(r.atoms) = Len(r.coordinates)
              /\ Len(r.atoms) > 0
              /\ dsrc[k] < dnext
              /\ r.atoms = c.atoms
              /\ r.coordinates = c.coordinates
              /\ r.smi \in {c.atoms, Reverse(c.atoms)}
              /\ LexLeq(r.smi, c.atoms) /\ LexLeq(r.smi, Reverse(c.atoms))
    /\ \A i \in 1..(dnext - 1) :
          (Len(sdf[i].atoms) # Len(sdf[i].coordinates)) =>
              (\A k \in DOMAIN dsrc : dsrc[k] # i)
    /\ \A j, k \in DOMAIN dsrc : (j < k) => (dsrc[j] < dsrc[k])
    /\ (ditem # <<>>) =>
          /\ Len(ditem[1].atoms) = Len(ditem[1].coordinates)
          /\ ditem[1].smi = store[1].smi

\* C9 witness: a file with a mismatched conformer and a well-formed one written
\* from the other end of the chain has been preprocessed; only the second is
\* stored, under the canonical reading.
C9_Witness ==
    /\ dpc = "read"
    /\ sdf = <<Short(Mol(<<"C", "C", "O">>)), Mol(<<"O", "C", "C">>)>>
    /\ Len(store) = 1
    /\ ditem[1].smi = <<"C", "C", "O">>

\* ------------------------------------------------------------------------
\* Specifications
\* ------------------------------------------------------------------------

\* one front end is exercised per behaviour; the others stay idle
Init ==
    \/ PretrainInit /\ TrainIdle /\ ReprIdle /\ PreprocessIdle
    \/ TrainInit /\ PretrainIdle /\ ReprIdle /\ PreprocessIdle
    \/ ReprInit /\ PretrainIdle /\ TrainIdle /\ PreprocessIdle
    \/ PreprocessInit /\ PretrainIdle /\ TrainIdle /\ ReprIdle

Next ==
    \/ PretrainNext
    \/ TrainNext
    \/ ReprNext
    \/ PreprocessNext

Spec == Init /\ [][Next]_vars

====
